---- MODULE Spec2Model ----
(***************************************************************************)
(* Model of cover_letters/main.py: the payload validator                   *)
(* (unwrap_code_fence, parse_llm_payload), the PDF layout loop (write_pdf) *)
(* and the single-shot pipeline of main().                                 *)
(*                                                                         *)
(* Text is a sequence of characters; a character is a one-letter string,   *)
(* or one of the names NL (U+000A), CR (U+000D), TAB (U+0009),             *)
(* LS (U+2028 LINE SEPARATOR), NBSP (U+00A0), EACUTE (U+00E9), BQ (the    *)
(* backquote U+0060), DQ (the double quote) and BS (the backslash).       *)
(***************************************************************************)
EXTENDS Integers, Sequences, FiniteSets, TLC

VARIABLES
    pc,           \* position of the run: main(), or the function under study
    args,         \* argparse.Namespace: text_out, pdf_out, skip_pdf, quiet
    sent,         \* what the language model answered (history of the input)
    raw_content,  \* response.choices[0].message.content
    result,       \* outcome of parse_llm_payload
    err,          \* the exception that ended the run, "" when none
    calls,        \* number of client.chat.completions.create calls
    stdout,       \* what print() wrote
    text_file,    \* content of args.text_out on disk, Absent when not written
    pdf_file,     \* path and content of the PDF on disk, Absent when not written
    writes,       \* file writes attempted, in order
    pdf           \* local state of write_pdf: paragraphs, loop indices, cursor y

vars == <<pc, args, sent, raw_content, result, err, calls, stdout,
          text_file, pdf_file, writes, pdf>>

(***************************************************************************)
(* Characters                                                              *)
(***************************************************************************)
UpperChars == <<"A","B","C","D","E","F","G","H","I","J","K","L","M",
                "N","O","P","Q","R","S","T","U","V","W","X","Y","Z">>
LowerChars == <<"a","b","c","d","e","f","g","h","i","j","k","l","m",
                "n","o","p","q","r","s","t","u","v","w","x","y","z">>
DigitChars == {"0","1","2","3","4","5","6","7","8","9"}

Range(s) == {s[i] : i \in DOMAIN s}

\* str.isascii() of one character
IsAscii(ch) == ch \notin {"LS", "NBSP", "EACUTE"}

\* str.isspace() of one character: what str.strip() removes
IsSpace(ch) == ch \in {" ", "TAB", "NL", "CR", "LS", "NBSP"}

\* str.isalnum() of one character
IsAlnum(ch) == ch \in Range(UpperChars) \cup Range(LowerChars) \cup DigitChars \cup {"EACUTE"}

\* str.lower() of one character
LowerChar(ch) ==
    IF \E i \in DOMAIN UpperChars : UpperChars[i] = ch
    THEN LowerChars[CHOOSE i \in DOMAIN UpperChars : UpperChars[i] = ch]
    ELSE ch

\* str.lower()
Lower(s) == [i \in DOMAIN s |-> LowerChar(s[i])]

\* str.startswith / str.endswith
StartsWith(s, p) == Len(s) >= Len(p) /\ SubSeq(s, 1, Len(p)) = p
EndsWith(s, p) == Len(s) >= Len(p) /\ SubSeq(s, Len(s) - Len(p) + 1, Len(s)) = p

\* str.strip(): leading and trailing whitespace removed
RECURSIVE LStrip(_)
LStrip(s) == IF s # <<>> /\ IsSpace(Head(s)) THEN LStrip(Tail(s)) ELSE s
RECURSIVE RStrip(_)
RStrip(s) == IF s # <<>> /\ IsSpace(s[Len(s)]) THEN RStrip(SubSeq(s, 1, Len(s) - 1)) ELSE s
Strip(s) == RStrip(LStrip(s))

Fence == <<"BQ", "BQ", "BQ">>
DotPdf == <<".", "p", "d", "f">>
DotTxt == <<".", "t", "x", "t">>

(***************************************************************************)
(* unwrap_code_fence                                                       *)
(***************************************************************************)
\* str.splitlines(): a line ends at \n, \r, \r\n or U+2028; no empty last line
SplitLines(s) ==
    LET ends == {i \in DOMAIN s :
                    \/ s[i] \in {"NL", "LS"}
                    \/ s[i] = "CR" /\ ~(i < Len(s) /\ s[i + 1] = "NL")}
        n == Cardinality(ends)
        End(k) == IF k = 0 THEN 0
                  ELSE CHOOSE e \in ends : Cardinality({x \in ends : x < e}) = k - 1
        Last(e) == IF s[e] = "NL" /\ e > 1 /\ s[e - 1] = "CR" THEN e - 2 ELSE e - 1
        ended == [k \in 1..n |-> SubSeq(s, End(k - 1) + 1, Last(End(k)))]
    IN IF End(n) < Len(s) THEN Append(ended, SubSeq(s, End(n) + 1, Len(s))) ELSE ended

\* "\n".join(lines)
RECURSIVE JoinLines(_)
JoinLines(lines) ==
    IF lines = <<>> THEN <<>>
    ELSE IF Len(lines) = 1 THEN lines[1]
    ELSE lines[1] \o <<"NL">> \o JoinLines(Tail(lines))

DropFirstFence(lines) ==
    IF lines # <<>> /\ StartsWith(lines[1], Fence) THEN Tail(lines) ELSE lines
DropLastFence(lines) ==
    IF lines # <<>> /\ StartsWith(lines[Len(lines)], Fence)
    THEN SubSeq(lines, 1, Len(lines) - 1) ELSE lines

unwrap_code_fence(text) ==
    LET stripped == Strip(text) IN
    IF StartsWith(stripped, Fence)
    THEN Strip(JoinLines(DropLastFence(DropFirstFence(SplitLines(stripped)))))
    ELSE stripped

(***************************************************************************)
(* json.loads, on the texts this model's responses are made of: an object  *)
(* whose members are strings, or a bare string.  A backslash appears in    *)
(* them only in the escapes \" \\ \/ \n \r \t (no \uXXXX), and no number,  *)
(* array, literal or nested object appears as a value.                     *)
(***************************************************************************)
\* whitespace of the JSON grammar (json.decoder WHITESPACE)
IsJsonWs(ch) == ch \in {" ", "TAB", "NL", "CR"}

RECURSIVE SkipWs(_, _)
SkipWs(t, i) == IF i <= Len(t) /\ IsJsonWs(t[i]) THEN SkipWs(t, i + 1) ELSE i

JsonFail == [ok |-> FALSE, val |-> <<>>, next |-> 0]

Unescape(ch) ==
    CASE ch = "n" -> "NL"
      [] ch = "r" -> "CR"
      [] ch = "t" -> "TAB"
      [] OTHER -> ch

\* json.decoder.py_scanstring (strict): t[i] is the character after the opening quote
RECURSIVE ScanString(_, _, _)
ScanString(t, i, acc) ==
    IF i > Len(t) THEN JsonFail
    ELSE IF t[i] = "DQ" THEN [ok |-> TRUE, val |-> acc, next |-> i + 1]
    ELSE IF t[i] = "BS" THEN
        IF i + 1 <= Len(t) /\ t[i + 1] \in {"DQ", "BS", "/", "n", "r", "t"}
        THEN ScanString(t, i + 2, Append(acc, Unescape(t[i + 1])))
        ELSE JsonFail
    ELSE IF t[i] \in {"NL", "CR", "TAB"} THEN JsonFail   \* invalid control character
    ELSE ScanString(t, i + 1, Append(acc, t[i]))

\* json.decoder.JSONObject: t[i] is the first character of a member, acc the pairs so far
RECURSIVE ScanMembers(_, _, _)
ScanMembers(t, i, acc) ==
    IF i > Len(t) \/ t[i] # "DQ" THEN JsonFail
    ELSE
      LET key == ScanString(t, i + 1, <<>>)
          colon == IF key.ok THEN SkipWs(t, key.next) ELSE 0
          vstart == SkipWs(t, colon + 1)
      IN
      IF ~key.ok \/ colon > Len(t) \/ t[colon] # ":" THEN JsonFail
      ELSE IF vstart > Len(t) \/ t[vstart] # "DQ" THEN JsonFail
      ELSE
        LET value == ScanString(t, vstart + 1, <<>>)
            after == IF value.ok THEN SkipWs(t, value.next) ELSE 0
            pairs == Append(acc, <<key.val, value.val>>)
        IN
        IF ~value.ok \/ after > Len(t) THEN JsonFail
        ELSE IF t[after] = "}" THEN [ok |-> TRUE, val |-> pairs, next |-> after + 1]
        ELSE IF t[after] = "," THEN ScanMembers(t, SkipWs(t, after + 1), pairs)
        ELSE JsonFail

\* json.loads(cleaned): kind is "object" (val: the pairs), "string" or "error"
json_loads(t) ==
    LET i == SkipWs(t, 1)
        JsonError == [kind |-> "error", val |-> <<>>]
        Whole(kind, r) ==
            IF r.ok /\ SkipWs(t, r.next) > Len(t)
            THEN [kind |-> kind, val |-> r.val] ELSE JsonError
    IN
    IF i > Len(t) THEN JsonError
    ELSE IF t[i] = "DQ" THEN Whole("string", ScanString(t, i + 1, <<>>))
    ELSE IF t[i] = "{" THEN
        LET j == SkipWs(t, i + 1) IN
        IF j <= Len(t) /\ t[j] = "}"
        THEN Whole("object", [ok |-> TRUE, val |-> <<>>, next |-> j + 1])
        ELSE Whole("object", ScanMembers(t, j, <<>>))
    ELSE JsonError

\* dict.get(key, ""): the last member named key wins
DictGet(pairs, key) ==
    LET hits == {i \in DOMAIN pairs : pairs[i][1] = key} IN
    IF hits = {} THEN <<>>
    ELSE pairs[CHOOSE i \in hits : \A j \in hits : j <= i][2]

KeyFilename == <<"f","i","l","e","n","a","m","e">>
KeyLetter == <<"l","e","t","t","e","r">>

(***************************************************************************)
(* parse_llm_payload                                                       *)
(***************************************************************************)
ErrNotJson == "LLM output was not valid JSON."
ErrNotObject == "LLM output JSON must be an object."
ErrMissingFilename == "LLM output missing filename."
ErrMissingLetter == "LLM output missing letter text."
ErrSeparators == "LLM filename must not include path separators."
ErrEmptyAfterCleanup == "LLM output filename is empty after cleanup."
ErrAscii == "LLM filename must use ASCII characters only."
ErrSpaces == "LLM filename must use underscores instead of spaces."
ErrCharset == "LLM filename must contain only letters, numbers, and underscores."

ValueErrors == {ErrNotJson, ErrNotObject, ErrMissingFilename, ErrMissingLetter,
                ErrSeparators, ErrEmptyAfterCleanup, ErrAscii, ErrSpaces, ErrCharset}

\* the (filename, letter_text) tuple returned, or the ValueError raised
Accept(filename, letter_text) ==
    [ok |-> TRUE, error |-> "", filename |-> filename, letter |-> letter_text]
Reject(error) ==
    [ok |-> FALSE, error |-> error, filename |-> <<>>, letter |-> <<>>]

\* "/" in filename or "\\" in filename
HasSeparator(filename) == "/" \in Range(filename) \/ "BS" \in Range(filename)

\* mutant: the suffix test forgets .lower()
StripExtension_CaseSensitive(filename, ext) ==
    IF EndsWith(filename, ext)
    THEN SubSeq(filename, 1, Len(filename) - 4) ELSE filename

\* if filename.lower().endswith(ext): filename = filename[:-4]
StripExtension(filename, ext) ==
    IF EndsWith(Lower(filename), ext)
    THEN SubSeq(filename, 1, Len(filename) - 4) ELSE filename

\* the .pdf test, then the .txt test, then filename.strip()
CleanFilename(filename) ==
    Strip(StripExtension(StripExtension(filename, DotPdf), DotTxt))

\* filename.isascii()
IsAsciiText(filename) == \A i \in DOMAIN filename : IsAscii(filename[i])

\* mutant: the character test also lets "-" through
OnlyWordChars_AllowsHyphen(filename) ==
    \A i \in DOMAIN filename : IsAlnum(filename[i]) \/ filename[i] \in {"_", "-"}

\* all(ch.isalnum() or ch == "_" for ch in filename)
OnlyWordChars(filename) ==
    \A i \in DOMAIN filename : IsAlnum(filename[i]) \/ filename[i] = "_"

\* the checks on the cleaned filename
CheckCleaned(cleaned, letter_text) ==
    IF cleaned = <<>> THEN Reject(ErrEmptyAfterCleanup)
    ELSE IF ~IsAsciiText(cleaned) THEN Reject(ErrAscii)
    ELSE IF " " \in Range(cleaned) THEN Reject(ErrSpaces)
    ELSE IF ~OnlyWordChars(cleaned) THEN Reject(ErrCharset)
    ELSE Accept(cleaned, letter_text)

\* mutant: the letter body is never tested
ValidatePayload_NoLetterCheck(filename, letter_text) ==
    IF filename = <<>> THEN Reject(ErrMissingFilename)
    ELSE IF HasSeparator(filename) THEN Reject(ErrSeparators)
    ELSE CheckCleaned(CleanFilename(filename), letter_text)

\* mutant: the letter body is tested after the filename rules
ValidatePayload_LetterLast(filename, letter_text) ==
    IF filename = <<>> THEN Reject(ErrMissingFilename)
    ELSE IF HasSeparator(filename) THEN Reject(ErrSeparators)
    ELSE IF ~CheckCleaned(CleanFilename(filename), letter_text).ok
         THEN CheckCleaned(CleanFilename(filename), letter_text)
    ELSE IF letter_text = <<>> THEN Reject(ErrMissingLetter)
    ELSE Accept(CleanFilename(filename), letter_text)

\* the checks of parse_llm_payload on the two stripped fields, in its order
ValidatePayload(filename, letter_text) ==
    IF filename = <<>> THEN Reject(ErrMissingFilename)
    ELSE IF letter_text = <<>> THEN Reject(ErrMissingLetter)
    ELSE IF HasSeparator(filename) THEN Reject(ErrSeparators)
    ELSE CheckCleaned(CleanFilename(filename), letter_text)

parse_llm_payload(raw) ==
    LET payload == json_loads(unwrap_code_fence(raw)) IN
    IF payload.kind = "error" THEN Reject(ErrNotJson)
    ELSE IF payload.kind # "object" THEN Reject(ErrNotObject)
    ELSE ValidatePayload(Strip(DictGet(payload.val, KeyFilename)),
                         Strip(DictGet(payload.val, KeyLetter)))

(***************************************************************************)
(* The answers of the language model: how a payload is written as text    *)
(***************************************************************************)
MaxCore == 2     \* longest filename stem drawn from CoreChars

CoreChars == {"a", "7", "_", " ", "/", "BS", ".", "-", "EACUTE", "NBSP", "TAB"}

Suffixes == {<<>>, DotPdf, <<".", "P", "D", "F">>, DotTxt, <<".", "T", "x", "t">>,
             DotTxt \o DotPdf, DotPdf \o DotTxt, DotPdf \o <<" ">>, <<"p", "d", "f">>}

SeqsUpTo(S, n) == UNION {[1..k -> S] : k \in 0..n}

CoverLetterPdf == <<"C","o","v","e","r","L","e","t","t","e","r",".","p","d","f">>
AcmeCorpRole == <<"A","c","m","e"," ","C","o","r","p","_","R","o","l","e">>
AcmeSoftwareEngineer ==
    <<"A","c","m","e","_","S","o","f","t","w","a","r","e","_","E","n","g","i","n","e","e","r">>

Filenames(n) ==
    {c \o x : c \in SeqsUpTo(CoreChars, n), x \in Suffixes}
        \cup {CoverLetterPdf, AcmeCorpRole, AcmeSoftwareEngineer}

LetterHi == <<"H", "i">>
LetterTwoParagraphs == <<" ", "H", "i", "NL", "NL", "y", "o", "u", " ">>
LetterLineSeparator == <<"H", "i", "LS", "y", "o", "u">>
Letters == {<<>>, <<" ", "NL", "NBSP">>, LetterHi, LetterTwoParagraphs, LetterLineSeparator}

JsonEscape(ch) ==
    CASE ch = "DQ" -> <<"BS", "DQ">>
      [] ch = "BS" -> <<"BS", "BS">>
      [] ch = "NL" -> <<"BS", "n">>
      [] ch = "CR" -> <<"BS", "r">>
      [] ch = "TAB" -> <<"BS", "t">>
      [] OTHER -> <<ch>>

RECURSIVE EscapeAll(_)
EscapeAll(txt) ==
    IF txt = <<>> THEN <<>> ELSE JsonEscape(Head(txt)) \o EscapeAll(Tail(txt))

Quoted(txt) == <<"DQ">> \o EscapeAll(txt) \o <<"DQ">>

\* a payload as the model writes it: which members it has, and how it is laid out
Payload(hasf, f, hasl, l, layout, fence) ==
    [shape |-> "object", has_filename |-> hasf, filename |-> f,
     has_letter |-> hasl, letter |-> l, layout |-> layout, fence |-> fence]

ObjectText(p) ==
    LET colon == IF p.layout = "pretty" THEN <<":", " ">> ELSE <<":">>
        open == IF p.layout = "pretty" THEN <<"{", "NL", " ", " ">> ELSE <<"{">>
        comma == IF p.layout = "pretty" THEN <<",", "CR", "NL", " ", " ">> ELSE <<",">>
        close == IF p.layout = "pretty" THEN <<"NL", "}">> ELSE <<"}">>
        fmember == IF p.has_filename
                   THEN Quoted(KeyFilename) \o colon \o Quoted(p.filename) ELSE <<>>
        lmember == IF p.has_letter
                   THEN Quoted(KeyLetter) \o colon \o Quoted(p.letter) ELSE <<>>
    IN open \o fmember
            \o (IF p.has_filename /\ p.has_letter THEN comma ELSE <<>>)
            \o lmember \o close

Fenced(opening, txt) == opening \o <<"NL">> \o txt \o <<"NL">> \o Fence
FenceJson == Fence \o <<"j", "s", "o", "n">>

Render(p) ==
    LET body == CASE p.shape = "object" -> ObjectText(p)
                  [] p.shape = "string" -> Quoted(p.filename)
                  [] OTHER -> p.filename
    IN CASE p.fence = "json" -> Fenced(FenceJson, body)
         [] p.fence = "bare" -> Fenced(Fence, body)
         [] OTHER -> body

\* answers that are no JSON object: a bare JSON string, prose, a cut-off object
Sure == <<"S", "u", "r", "e">>
OtherAnswers ==
    {[Payload(TRUE, f, FALSE, <<>>, "compact", fence) EXCEPT !.shape = shape] :
        f \in {Sure, <<"{", "DQ", "a", "DQ">>, <<>>, Fence},
        fence \in {"none", "json"}, shape \in {"string", "prose"}}

\* every filename with every letter, written compactly without a fence
PlainAnswers(n) ==
    {Payload(TRUE, f, TRUE, l, "compact", "none") : f \in Filenames(n), l \in Letters}

\* the same in the other layouts, with and without a fence
VariedAnswers(n) ==
    {Payload(TRUE, f, TRUE, l, v[1], v[2]) :
        f \in Filenames(n), l \in Letters,
        v \in {<<"compact", "json">>, <<"pretty", "none">>, <<"pretty", "bare">>}}

\* objects without the filename member, the letter member, or both
PartialAnswers(n) ==
    {Payload(TRUE, f, FALSE, <<>>, layout, fence) :
        f \in Filenames(n), layout \in {"compact", "pretty"}, fence \in {"none", "json"}}
    \cup {Payload(FALSE, <<>>, TRUE, l, layout, fence) :
        l \in Letters, layout \in {"compact", "pretty"}, fence \in {"none", "json"}}
    \cup {Payload(FALSE, <<>>, FALSE, <<>>, layout, fence) :
        layout \in {"compact", "pretty"}, fence \in {"none", "json"}}

\* the answers parse_llm_payload is applied to, for stems of at most n characters
Answers(n) ==
    PlainAnswers(n) \cup VariedAnswers(n - 1) \cup PartialAnswers(n - 1) \cup OtherAnswers

(***************************************************************************)
(* State shared by the three specifications                                *)
(***************************************************************************)
NoAnswer == [Payload(FALSE, <<>>, FALSE, <<>>, "compact", "none") EXCEPT !.shape = "none"]
Pending == Reject("pending")
NoArgs == [text_out |-> FALSE, pdf_out |-> FALSE, skip_pdf |-> FALSE, quiet |-> FALSE]
NoPath == [anchor |-> "", parts |-> <<>>]
Absent == [written |-> FALSE, path |-> NoPath, content |-> <<>>]
PdfIdle == [paras |-> <<>>, p |-> 0, l |-> 0, y |-> 0, pages |-> 0, drawn |-> 0, drawn_at |-> 0]

(***************************************************************************)
(* SpecParse: parse_llm_payload applied to every answer                    *)
(***************************************************************************)
InitParse ==
    /\ sent \in Answers(MaxCore)
    /\ raw_content = Render(sent)
    /\ pc = "parse"
    /\ result = Pending
    /\ args = NoArgs /\ err = "" /\ calls = 0 /\ stdout = <<>>
    /\ text_file = Absent /\ pdf_file = Absent /\ writes = <<>> /\ pdf = PdfIdle

Parse ==
    /\ pc = "parse"
    /\ result' = parse_llm_payload(raw_content)
    /\ pc' = "parsed"
    /\ UNCHANGED <<args, sent, raw_content, err, calls, stdout, text_file, pdf_file, writes, pdf>>

NextParse == Parse

SpecParse == InitParse /\ [][NextParse]_vars

(***************************************************************************)
(* Paths (pathlib.PurePosixPath): an anchor and the parts below it         *)
(***************************************************************************)
\* str.split("/") of a relative or absolute name, without "" and "." parts
RECURSIVE SplitParts(_, _)
SplitParts(name, cur) ==
    LET done == IF cur \in {<<>>, <<".">>} THEN <<>> ELSE <<cur>> IN
    IF name = <<>> THEN done
    ELSE IF Head(name) = "/" THEN done \o SplitParts(Tail(name), <<>>)
    ELSE SplitParts(Tail(name), Append(cur, Head(name)))

\* base / name
PathJoin(base, name) ==
    IF name # <<>> /\ Head(name) = "/"
    THEN [anchor |-> "/", parts |-> SplitParts(name, <<>>)]
    ELSE [anchor |-> base.anchor, parts |-> base.parts \o SplitParts(name, <<>>)]

BASE_OUTPUT_DIR ==
    [anchor |-> "/",
     parts |-> << <<"U","s","e","r","s">>, <<"h","a","n","u">>,
                  <<"D","o","c","u","m","e","n","t","s">>,
                  <<"P","e","r","s","o","n","a","l">>,
                  <<"C","o","v","e","r"," ","l","e","t","t","e","r","s">> >>]

\* mutant: the extension is forgotten
default_pdf_path_NoExtension(filename) == PathJoin(BASE_OUTPUT_DIR, filename)

default_pdf_path(filename) == PathJoin(BASE_OUTPUT_DIR, filename \o DotPdf)

\* the values of --pdf-out and --text-out when they are given
PdfOutArg == [anchor |-> "cwd", parts |-> << <<"o","u","t",".","p","d","f">> >>]
TextOutArg == [anchor |-> "cwd", parts |-> << <<"o","u","t",".","t","x","t">> >>]

(***************************************************************************)
(* Spec: one run of main()                                                 *)
(***************************************************************************)
\* the answers a run of main() may get, for stems of at most n characters
MainAnswers(n) ==
    {Payload(TRUE, f, TRUE, l, "compact", "none") :
        f \in Filenames(n), l \in {<<>>, LetterTwoParagraphs}}
    \cup VariedAnswers(0) \cup PartialAnswers(0) \cup OtherAnswers

Init ==
    /\ pc = "main"
    /\ args \in [text_out : BOOLEAN, pdf_out : BOOLEAN, skip_pdf : BOOLEAN, quiet : BOOLEAN]
    /\ sent = NoAnswer /\ raw_content = <<>> /\ result = Pending
    /\ err = "" /\ calls = 0 /\ stdout = <<>>
    /\ text_file = Absent /\ pdf_file = Absent /\ writes = <<>> /\ pdf = PdfIdle

\* mutant: a failed call is tried again
ApiCallFails_Retries ==
    /\ pc = "main" /\ calls < 3
    /\ calls' = calls + 1
    /\ UNCHANGED <<pc, err, args, sent, raw_content, result, stdout, text_file, pdf_file,
                   writes, pdf>>

\* generate_letter_payload: client.chat.completions.create raises; logged and re-raised
ApiCallFails ==
    /\ pc = "main"
    /\ calls' = calls + 1
    /\ err' = "APIError"
    /\ pc' = "aborted"
    /\ UNCHANGED <<args, sent, raw_content, result, stdout, text_file, pdf_file, writes, pdf>>

\* generate_letter_payload: the call returns; content = ....message.content.strip()
ApiCallReturns ==
    /\ pc = "main"
    /\ \E answer \in MainAnswers(MaxCore - 1) :
         /\ sent' = answer
         /\ raw_content' = Strip(Render(answer))
    /\ calls' = calls + 1
    /\ pc' = "api_returned"
    /\ UNCHANGED <<args, result, err, stdout, text_file, pdf_file, writes, pdf>>

\* generate_letter_payload: return parse_llm_payload(content), the payload is valid
PayloadAccepted ==
    /\ pc = "api_returned"
    /\ result' = parse_llm_payload(raw_content)
    /\ result'.ok
    /\ pc' = "validated"
    /\ UNCHANGED <<args, sent, raw_content, err, calls, stdout, text_file, pdf_file, writes, pdf>>

\* generate_letter_payload: parse_llm_payload raises ValueError, main() does not catch it
PayloadRejected ==
    /\ pc = "api_returned"
    /\ result' = parse_llm_payload(raw_content)
    /\ ~result'.ok
    /\ err' = result'.error
    /\ pc' = "aborted"
    /\ UNCHANGED <<args, sent, raw_content, calls, stdout, text_file, pdf_file, writes, pdf>>

\* mutant: --quiet also silences the letter
PrintLetter_UnlessQuiet ==
    /\ pc = "validated"
    /\ stdout' = IF args.quiet THEN stdout ELSE Append(stdout, result.letter)
    /\ pc' = "printed"
    /\ UNCHANGED <<args, sent, raw_content, result, err, calls, text_file, pdf_file, writes, pdf>>

\* print(letter_text)
PrintLetter ==
    /\ pc = "validated"
    /\ stdout' = Append(stdout, result.letter)
    /\ pc' = "printed"
    /\ UNCHANGED <<args, sent, raw_content, result, err, calls, text_file, pdf_file, writes, pdf>>

\* if args.text_out: write_text_file(letter_text, args.text_out)
WriteTextFile ==
    /\ pc = "printed" /\ args.text_out
    /\ writes' = Append(writes, "text")
    /\ text_file' = [written |-> TRUE, path |-> TextOutArg, content |-> result.letter]
    /\ pc' = "text_done"
    /\ UNCHANGED <<args, sent, raw_content, result, err, calls, stdout, pdf_file, pdf>>

\* write_text_file raises OSError (mkdir or the open of write_text fails)
WriteTextFileFails ==
    /\ pc = "printed" /\ args.text_out
    /\ writes' = Append(writes, "text")
    /\ err' = "OSError"
    /\ pc' = "aborted"
    /\ UNCHANGED <<args, sent, raw_content, result, calls, stdout, text_file, pdf_file, pdf>>

SkipTextFile ==
    /\ pc = "printed" /\ ~args.text_out
    /\ pc' = "text_done"
    /\ UNCHANGED <<args, sent, raw_content, result, err, calls, stdout, text_file, pdf_file,
                   writes, pdf>>

\* pdf_path = args.pdf_out or default_pdf_path(filename)
PdfPath == IF args.pdf_out THEN PdfOutArg ELSE default_pdf_path(result.filename)

\* if not args.skip_pdf: write_pdf(letter_text, pdf_path)
WritePdf ==
    /\ pc = "text_done" /\ ~args.skip_pdf
    /\ writes' = Append(writes, "pdf")
    /\ pdf_file' = [written |-> TRUE, path |-> PdfPath, content |-> result.letter]
    /\ pc' = "done"
    /\ UNCHANGED <<args, sent, raw_content, result, err, calls, stdout, text_file, pdf>>

\* write_pdf raises OSError (mkdir or the open of c.save() fails)
WritePdfFails ==
    /\ pc = "text_done" /\ ~args.skip_pdf
    /\ writes' = Append(writes, "pdf")
    /\ err' = "OSError"
    /\ pc' = "aborted"
    /\ UNCHANGED <<args, sent, raw_content, result, calls, stdout, text_file, pdf_file, pdf>>

SkipPdf ==
    /\ pc = "text_done" /\ args.skip_pdf
    /\ pc' = "done"
    /\ UNCHANGED <<args, sent, raw_content, result, err, calls, stdout, text_file, pdf_file,
                   writes, pdf>>

Next ==
    \/ ApiCallFails \/ ApiCallReturns
    \/ PayloadAccepted \/ PayloadRejected
    \/ PrintLetter
    \/ WriteTextFile \/ WriteTextFileFails \/ SkipTextFile
    \/ WritePdf \/ WritePdfFails \/ SkipPdf

Spec == Init /\ [][Next]_vars

(***************************************************************************)
(* SpecPdf: the layout loop of write_pdf, one drawString per step          *)
(***************************************************************************)
height == 792          \* _, height = LETTER
y_margin == 72
line_height == 14

MaxParas == 3          \* most paragraphs of a letter

\* len(wrap(paragraph, 95)) of one paragraph; 0 for an empty paragraph
LineCounts == {0, 1, 2, 45, 46, 47}

\* letter_text is stripped: its first and its last paragraph have a line
Shapes ==
    {ps \in UNION {[1..k -> LineCounts] : k \in 1..MaxParas} :
        ps[1] > 0 /\ ps[Len(ps)] > 0}

InitPdf ==
    /\ pc = "write_pdf"
    /\ \E ps \in Shapes :
         pdf = [paras |-> ps, p |-> 1, l |-> 0, y |-> height - y_margin,
                pages |-> 1, drawn |-> 0, drawn_at |-> 0]
    /\ args = NoArgs /\ sent = NoAnswer /\ raw_content = <<>> /\ result = Pending
    /\ err = "" /\ calls = 0 /\ stdout = <<>>
    /\ text_file = Absent /\ pdf_file = Absent /\ writes = <<>>

InLoop == pc = "write_pdf" /\ pdf.p <= Len(pdf.paras)

\* c.drawString(x_margin, y, line); y -= line_height; the page still has room
DrawLine ==
    /\ InLoop /\ pdf.l < pdf.paras[pdf.p]
    /\ ~(pdf.y - line_height < y_margin)
    /\ pdf' = [pdf EXCEPT !.l = @ + 1, !.drawn = @ + 1, !.drawn_at = pdf.y,
                          !.y = @ - line_height]
    /\ UNCHANGED <<pc, args, sent, raw_content, result, err, calls, stdout,
                   text_file, pdf_file, writes>>

\* the same, and y < y_margin: c.showPage(); y = height - y_margin
DrawLineShowPage ==
    /\ InLoop /\ pdf.l < pdf.paras[pdf.p]
    /\ pdf.y - line_height < y_margin
    /\ pdf' = [pdf EXCEPT !.l = @ + 1, !.drawn = @ + 1, !.drawn_at = pdf.y,
                          !.y = height - y_margin, !.pages = @ + 1]
    /\ UNCHANGED <<pc, args, sent, raw_content, result, err, calls, stdout,
                   text_file, pdf_file, writes>>

\* the paragraph's lines are drawn: y -= line_height, next paragraph
EndParagraph ==
    /\ InLoop /\ pdf.l = pdf.paras[pdf.p]
    /\ pdf' = [pdf EXCEPT !.p = @ + 1, !.l = 0, !.y = @ - line_height]
    /\ UNCHANGED <<pc, args, sent, raw_content, result, err, calls, stdout,
                   text_file, pdf_file, writes>>

\* c.save()
SavePdf ==
    /\ pc = "write_pdf" /\ pdf.p > Len(pdf.paras)
    /\ pc' = "saved"
    /\ pdf_file' = [written |-> TRUE, path |-> PdfOutArg, content |-> <<>>]
    /\ UNCHANGED <<args, sent, raw_content, result, err, calls, stdout,
                   text_file, writes, pdf>>

NextPdf == DrawLine \/ DrawLineShowPage \/ EndParagraph \/ SavePdf

SpecPdf == InitPdf /\ [][NextPdf]_vars

(***************************************************************************)
(* Vocabulary of the claims                                                *)
(***************************************************************************)
WordChars == Range(UpperChars) \cup Range(LowerChars) \cup DigitChars \cup {"_"}

\* non-empty, ASCII, no space, only letters, digits and underscore
IsSafeName(f) == f # <<>> /\ \A i \in DOMAIN f : f[i] \in WordChars

\* contains '/', '\', a space, a non-ASCII character or any other character outside [A-Za-z0-9_]
HasForbiddenChar(f) == \E i \in DOMAIN f : f[i] \notin WordChars

\* the filename without one trailing .pdf or .txt, in any case
WithoutSuffix(f) ==
    IF Len(f) >= 4 /\ Lower(SubSeq(f, Len(f) - 3, Len(f))) \in {DotPdf, DotTxt}
    THEN SubSeq(f, 1, Len(f) - 4) ELSE f

\* empty or whitespace-only
IsBlank(l) == \A i \in DOMAIN l : IsSpace(l[i])

IsObject == sent.shape = "object"
Unfenced == sent.fence = "none"
NoOutputFiles == ~text_file.written /\ ~pdf_file.written

\* the error of the first violated rule when the rules are tried in the given order
Violates(rule, f, g, l) ==
    CASE rule = ErrMissingFilename -> f = <<>>
      [] rule = ErrMissingLetter -> l = <<>>
      [] rule = ErrSeparators -> \E i \in DOMAIN f : f[i] \in {"/", "BS"}
      [] rule = ErrEmptyAfterCleanup -> g = <<>>
      [] rule = ErrAscii -> \E i \in DOMAIN g : g[i] \in {"LS", "NBSP", "EACUTE"}
      [] rule = ErrSpaces -> \E i \in DOMAIN g : g[i] = " "
      [] rule = ErrCharset -> HasForbiddenChar(g)
      [] OTHER -> FALSE

FirstViolated(rules, f, g, l) ==
    LET bad == {k \in DOMAIN rules : Violates(rules[k], f, g, l)} IN
    IF bad = {} THEN "" ELSE rules[CHOOSE k \in bad : \A j \in bad : k <= j]

\* the order the specification lists: the letter body last
ListedOrder == <<ErrMissingFilename, ErrSeparators, ErrEmptyAfterCleanup, ErrAscii,
                 ErrSpaces, ErrCharset, ErrMissingLetter>>
\* the letter body second
LetterSecondOrder == <<ErrMissingFilename, ErrMissingLetter, ErrSeparators,
                       ErrEmptyAfterCleanup, ErrAscii, ErrSpaces, ErrCharset>>

\* trailing .pdf removed, then trailing .txt, then trimmed again
WithoutBothSuffixes(f) ==
    LET NoExt(x, ext) ==
            IF Len(x) >= 4 /\ Lower(SubSeq(x, Len(x) - 3, Len(x))) = ext
            THEN SubSeq(x, 1, Len(x) - 4) ELSE x
    IN Strip(NoExt(NoExt(Strip(f), DotPdf), DotTxt))

(***************************************************************************)
(* Claims about parse_llm_payload, checked under SpecParse                 *)
(***************************************************************************)
\* C1: an unfenced JSON object with a non-blank letter and a filename that, without a
\* .pdf/.txt suffix, is a safe name is accepted, and yields exactly that name and the
\* trimmed letter.
C1_SafeNameReturned ==
    (/\ pc = "parsed" /\ IsObject /\ Unfenced
     /\ sent.has_filename /\ sent.has_letter
     /\ ~IsBlank(sent.letter)
     /\ IsSafeName(WithoutSuffix(sent.filename)))
    => result = Accept(WithoutSuffix(sent.filename), Strip(sent.letter))

C1_Witness ==
    /\ pc = "parsed" /\ IsObject /\ Unfenced
    /\ sent.filename = CoverLetterPdf /\ sent.letter = LetterTwoParagraphs
    /\ result.ok /\ result.filename = SubSeq(CoverLetterPdf, 1, 11)

\* C3: a letter that is empty, whitespace-only or absent is rejected whatever the
\* filename, and no accepted payload has an empty letter.
C3_BlankLetterRejected ==
    pc = "parsed" =>
        /\ (IsObject /\ (~sent.has_letter \/ IsBlank(sent.letter))) => ~result.ok
        /\ result.ok => result.letter # <<>>

C3_Witness ==
    /\ pc = "parsed" /\ IsObject /\ Unfenced
    /\ sent.has_letter /\ sent.letter = <<" ", "NL", "NBSP">>
    /\ IsSafeName(sent.filename)
    /\ result.error = ErrMissingLetter

\* C4: a response that parses to a payload parses to the same payload when it is wrapped
\* in a ```json ... ``` or ``` ... ``` code fence.
C4_FencedParsesTheSame ==
    (pc = "parsed" /\ Unfenced /\ result.ok) =>
        /\ parse_llm_payload(Fenced(FenceJson, raw_content)) = result
        /\ parse_llm_payload(Fenced(Fence, raw_content)) = result

\* C9 as stated: the error raised is that of the first rule violated in the listed
\* order (filename rules first, one suffix stripped, letter body last).
C9_ListedOrder ==
    (pc = "parsed" /\ IsObject /\ Unfenced) =>
        result.error = FirstViolated(ListedOrder, Strip(sent.filename),
                                     WithoutSuffix(Strip(sent.filename)), Strip(sent.letter))

\* C9 amended: the error raised is that of the first rule violated in the order
\* empty filename, empty letter body, path separator, empty after removing .pdf then
\* .txt and trimming, non-ASCII, space, other character.
C9_LetterSecondOrder ==
    (pc = "parsed" /\ IsObject /\ Unfenced) =>
        /\ result.error = FirstViolated(LetterSecondOrder, Strip(sent.filename),
                                        WithoutBothSuffixes(sent.filename), Strip(sent.letter))
        /\ result.ok <=> result.error = ""

C9_Witness ==
    /\ pc = "parsed" /\ IsObject /\ Unfenced
    /\ \E i \in DOMAIN sent.filename : sent.filename[i] = "/"
    /\ sent.has_letter /\ IsBlank(sent.letter)
    /\ result.error = ErrMissingLetter

(***************************************************************************)
(* Claims about a run of main(), checked under Spec                        *)
(***************************************************************************)
\* the answer has been through parse_llm_payload
Validated == pc \notin {"main", "api_returned"} /\ IsObject /\ sent.has_filename

Rejected == ~result.ok /\ pc = "aborted" /\ err \in ValueErrors

\* C2 as stated: a filename containing '/', '\', a space, a non-ASCII character or any
\* character outside [A-Za-z0-9_] is rejected with a validation error, and the run
\* writes neither file.
C2_ForbiddenCharRejected ==
    (Validated /\ HasForbiddenChar(sent.filename)) => (Rejected /\ NoOutputFiles)

\* C2 amended: a filename that still contains such a character once it is trimmed and
\* its trailing .pdf and .txt are removed is rejected with a validation error, and the
\* run writes neither file.
C2_ForbiddenCharAfterCleanupRejected ==
    (Validated /\ HasForbiddenChar(WithoutBothSuffixes(sent.filename)))
        => (Rejected /\ NoOutputFiles)

C2_Witness ==
    /\ Validated /\ Unfenced /\ sent.filename = AcmeCorpRole /\ ~IsBlank(sent.letter)
    /\ pc = "aborted" /\ err = ErrSpaces /\ NoOutputFiles

\* C5: a run that ended with an error has written neither the text file nor the PDF.
C5_NoPartialOutput == pc = "aborted" => NoOutputFiles

\* C6: at most one call and no retry; a failed call ends the run with nothing printed
\* and nothing written; no write happens before the call has returned a valid payload;
\* a successful run makes one write sequence, the text file (if asked) then the PDF
\* (unless skipped).
C6_OneCallOneWriteSequence ==
    /\ calls <= 1
    /\ err = "APIError" =>
          pc = "aborted" /\ calls = 1 /\ stdout = <<>> /\ writes = <<>> /\ NoOutputFiles
    /\ writes # <<>> => calls = 1 /\ result.ok
    /\ writes \in {<<>>, <<"text">>, <<"pdf">>, <<"text", "pdf">>}
    /\ pc = "done" =>
          writes = (IF args.text_out THEN <<"text">> ELSE <<>>)
                       \o (IF args.skip_pdf THEN <<>> ELSE <<"pdf">>)

C6_Witness ==
    pc = "done" /\ calls = 1 /\ writes = <<"text", "pdf">>
        /\ text_file.written /\ pdf_file.written

\* C7: once the payload is valid the trimmed letter is printed exactly once, before any
\* write is attempted and whatever the flags, so also when a write then fails.
C7_LetterAlwaysPrinted ==
    /\ Len(stdout) <= 1
    /\ (result.ok /\ pc # "validated") => stdout = <<Strip(sent.letter)>>
    /\ writes # <<>> => Len(stdout) = 1

C7_Witness ==
    /\ pc = "aborted" /\ err = "OSError" /\ writes = <<"pdf">>
    /\ args.quiet /\ args.pdf_out
    /\ stdout = <<SubSeq(LetterTwoParagraphs, 2, 8)>>

C10_LinesInsideMargins ==
    pdf.drawn > 0 => (y_margin <= pdf.drawn_at /\ pdf.drawn_at <= height - y_margin)

====
